---- MODULE Spec2Model ----
(***************************************************************************)
(* Model of src/platform_impl/macos/app_delegate.rs: the TaoAppDelegate    *)
(* class, its AuxDelegateState ivar, the lifecycle callbacks and the       *)
(* Apple-event URL decoder.                                                *)
(***************************************************************************)
EXTENDS Integers, Sequences, FiniteSets, TLC

\* ---------------------------------------------------------------- bounds
NInst == 2
NAddr == 2
NUsers == 2
NThreads == 3
MaxDealloc == 2
MaxCallbacks == 2
MaxEvents == 2
MaxStrLen == 2

Inst == 1..NInst
Addr == 1..NAddr
Users == 1..NUsers
Threads == 1..NThreads

\* ------------------------------------------------------ program constants
kInternetEventClass == 1196773964
kAEGetURL == 1196773964
keyDirectObject == 757935405

\* A foreign four-character code ('aevt'), used for events and keywords that
\* are not the ones the delegate registers for.
kOtherCode == 1634039412

NULL == 0
Policies == {"Regular", "Accessory", "Prohibited"}

VARIABLES
  once,        \* lazy_static Once of APP_DELEGATE_CLASS
  classId,     \* the *const Class stored in APP_DELEGATE_CLASS (NULL before)
  regRuns,     \* number of times the initializer body has been entered
  nameTaken,   \* "TaoAppDelegate" is already registered with the runtime
  tpc,         \* per thread: position in its access to APP_DELEGATE_CLASS
  seen,        \* per thread: the class pointer its access yielded
  obj,         \* per instance: "none" | "live" | "dead" (dealloc has run)
  ivar,        \* per instance: the auxState ivar (*mut c_void)
  heap,        \* per address: the Box<RefCell<AuxDelegateState>> memory
  view,        \* per user frame: the RefMut it holds, or NoView
  result,      \* the last get_aux_state_mut call and its outcome
  proc,        \* "running" | "panicked" | "aborted"
  constructs,  \* number of Box::new performed by new
  reclaims,    \* number of Box::from_raw drops performed by dealloc
  deallocCalls,\* per instance: number of dealloc invocations
  written,     \* per instance: the values last stored through its accessor
  handler,     \* NSAppleEventManager table entry for (class, id)
  regCalls,    \* number of setEventHandler messages sent
  launched,    \* sequence of the handles passed to AppState::launched
  exits,       \* number of AppState::exit calls
  queue,       \* AppState event queue: sequence of UrlEvent strings
  delivered,   \* sequence of events handed to the URL handler
  paramReads,  \* number of paramDescriptorForKeyword messages sent
  cbCalls,     \* per instance, per callback: number of deliveries
  phase        \* per instance: progress through the canonical lifecycle

classVars == <<once, classId, regRuns, nameTaken, tpc, seen>>
memVars == <<obj, ivar, heap, view, result, proc, constructs, reclaims,
             deallocCalls, written>>
lifeVars == <<handler, regCalls, launched, exits, cbCalls, phase>>
urlVars == <<queue, delivered, paramReads>>
vars == <<once, classId, regRuns, nameTaken, tpc, seen, obj, ivar, heap, view,
          result, proc, constructs, reclaims, deallocCalls, written, handler,
          regCalls, launched, exits, queue, delivered, paramReads, cbCalls,
          phase>>

NoView == [inst |-> 0, addr |-> 0]

\* Mutant of AuxDelegateState: new builds the state with another policy
AuxDelegateState_accessory ==
  [activation_policy |-> "Accessory", create_default_menu |-> TRUE]

\* AuxDelegateState as built by new
AuxDelegateState == [activation_policy |-> "Regular", create_default_menu |-> TRUE]

\* RefCell::new(AuxDelegateState {..}) placed in a fresh Box
NewCell == [status |-> "alloc", borrow |-> 0, state |-> AuxDelegateState]

\* Memory that no Box has been placed in yet
FreshMem == [status |-> "free", borrow |-> 0, state |-> AuxDelegateState]

Running == proc = "running"

\* ------------------------------------------------------------- new/dealloc
\* The lifecycle monitor: 1 after new, then will-finish-launching,
\* did-finish-launching, will-terminate and dealloc in that order lead to
\* 2, 3, 4, 5; any other delivery to the instance leads to -1.
Advance(i, from) == IF phase[i] = from THEN from + 1 ELSE -1

\* extern "C" fn new(class, _): alloc + init, then set_ivar(auxState,
\* Box::into_raw(Box::new(RefCell::new(AuxDelegateState {..})))).
\* The allocator may hand out any address that is not in use.
new(i, a) ==
  /\ Running
  /\ classId # NULL
  /\ obj[i] = "none"
  /\ heap[a].status = "free"
  /\ obj' = [obj EXCEPT ![i] = "live"]
  /\ ivar' = [ivar EXCEPT ![i] = a]
  /\ heap' = [heap EXCEPT ![a] = NewCell]
  /\ constructs' = constructs + 1
  /\ written' = [written EXCEPT ![i] = AuxDelegateState]
  /\ phase' = [phase EXCEPT ![i] = 1]
  /\ UNCHANGED <<view, result, proc, reclaims, deallocCalls>>
  /\ UNCHANGED <<handler, regCalls, launched, exits, cbCalls>>
  /\ UNCHANGED urlVars
  /\ UNCHANGED classVars

\* Mutant of dealloc: the Box is never rebuilt from the pointer, so the
\* AuxDelegateState is not released
dealloc_leak(i) ==
  /\ Running
  /\ obj[i] # "none"
  /\ deallocCalls[i] < MaxDealloc
  /\ obj' = [obj EXCEPT ![i] = "dead"]
  /\ deallocCalls' = [deallocCalls EXCEPT ![i] = @ + 1]
  /\ phase' = [phase EXCEPT ![i] = Advance(i, 4)]
  /\ UNCHANGED written
  /\ UNCHANGED <<ivar, heap, view, result, proc, constructs, reclaims>>
  /\ UNCHANGED <<handler, regCalls, launched, exits, cbCalls>>
  /\ UNCHANGED urlVars
  /\ UNCHANGED classVars

\* extern "C" fn dealloc(this, _): reads the ivar and drops
\* Box::from_raw(state_ptr).  The ivar is left as it is.  Dropping a Box whose
\* memory is already released is undefined: the allocator may abort the
\* process or carry on.
dealloc(i) ==
  /\ Running
  /\ obj[i] # "none"
  /\ deallocCalls[i] < MaxDealloc
  /\ LET state_ptr == ivar[i] IN
       \/ /\ heap[state_ptr].status = "alloc"
          /\ heap' = [heap EXCEPT ![state_ptr].status = "free"]
          /\ reclaims' = reclaims + 1
          /\ obj' = [obj EXCEPT ![i] = "dead"]
          /\ deallocCalls' = [deallocCalls EXCEPT ![i] = @ + 1]
          /\ UNCHANGED <<ivar, view, result, proc, constructs>>
       \/ /\ heap[state_ptr].status = "free"
          /\ reclaims' = reclaims + 1
          /\ obj' = [obj EXCEPT ![i] = "dead"]
          /\ deallocCalls' = [deallocCalls EXCEPT ![i] = @ + 1]
          /\ UNCHANGED <<ivar, heap, view, result, proc, constructs>>
       \/ /\ heap[state_ptr].status = "free"
          /\ proc' = "aborted"
          /\ obj' = [obj EXCEPT ![i] = "dead"]
          /\ deallocCalls' = [deallocCalls EXCEPT ![i] = @ + 1]
          /\ UNCHANGED <<ivar, heap, view, result, constructs, reclaims>>
  /\ phase' = [phase EXCEPT ![i] = Advance(i, 4)]
  /\ UNCHANGED written
  /\ UNCHANGED <<handler, regCalls, launched, exits, cbCalls>>
  /\ UNCHANGED urlVars
  /\ UNCHANGED classVars

\* Mutant of get_aux_state_mut: the cell is borrowed without looking at its
\* borrow flag
get_aux_state_mut_unchecked(u, i) ==
  /\ Running
  /\ obj[i] # "none"
  /\ view[u] = NoView
  /\ heap' = [heap EXCEPT ![ivar[i]].borrow = -1]
  /\ view' = [view EXCEPT ![u] = [inst |-> i, addr |-> ivar[i]]]
  /\ result' = [user |-> u, inst |-> i, outcome |-> "RefMut",
                 tick |-> 1 - result.tick]
  /\ phase' = [phase EXCEPT ![i] = -1]
  /\ UNCHANGED <<obj, ivar, proc, constructs, reclaims, deallocCalls, written>>
  /\ UNCHANGED <<handler, regCalls, launched, exits, cbCalls>>
  /\ UNCHANGED urlVars
  /\ UNCHANGED classVars

\* ------------------------------------------------------- get_aux_state_mut
\* RefCell::borrow_mut on the cell the ivar points to: the borrow flag must be
\* UNUSED (0) and becomes -1; otherwise borrow_mut panics ("already
\* borrowed").  The function returns RefMut, not Result: nothing is handed
\* back to the caller on a conflict, the panic unwinds out of the call.
get_aux_state_mut(u, i) ==
  /\ Running
  /\ obj[i] # "none"
  /\ view[u] = NoView
  /\ LET ptr == ivar[i] IN
       \/ /\ heap[ptr].borrow = 0
          /\ heap' = [heap EXCEPT ![ptr].borrow = -1]
          /\ view' = [view EXCEPT ![u] = [inst |-> i, addr |-> ptr]]
          /\ result' = [user |-> u, inst |-> i, outcome |-> "RefMut",
                         tick |-> 1 - result.tick]
          /\ UNCHANGED proc
       \/ /\ heap[ptr].borrow # 0
          /\ result' = [user |-> u, inst |-> i, outcome |-> "panic",
                         tick |-> 1 - result.tick]
          /\ proc' = "panicked"
          /\ UNCHANGED <<heap, view>>
       \/ /\ heap[ptr].status = "free"
          /\ result' = [user |-> u, inst |-> i, outcome |-> "abort",
                         tick |-> 1 - result.tick]
          /\ proc' = "aborted"
          /\ UNCHANGED <<heap, view>>
  /\ phase' = [phase EXCEPT ![i] = -1]
  /\ UNCHANGED <<obj, ivar, constructs, reclaims, deallocCalls, written>>
  /\ UNCHANGED <<handler, regCalls, launched, exits, cbCalls>>
  /\ UNCHANGED urlVars
  /\ UNCHANGED classVars

\* Drop of the RefMut returned by get_aux_state_mut: the borrow flag of the
\* cell it points into is incremented.
drop_ref_mut(u) ==
  /\ Running
  /\ view[u] # NoView
  /\ LET ptr == view[u].addr IN
       \/ /\ heap' = [heap EXCEPT ![ptr].borrow = @ + 1]
          /\ view' = [view EXCEPT ![u] = NoView]
          /\ UNCHANGED proc
       \/ /\ heap[ptr].status = "free"
          /\ proc' = "aborted"
          /\ UNCHANGED <<heap, view>>
  /\ UNCHANGED <<obj, ivar, result, constructs, reclaims, deallocCalls, written>>
  /\ UNCHANGED lifeVars
  /\ UNCHANGED urlVars
  /\ UNCHANGED classVars

\* A write of the two public fields through the RefMut.
write_aux(u, p, m) ==
  /\ Running
  /\ view[u] # NoView
  /\ LET ptr == view[u].addr IN
       \/ /\ heap' = [heap EXCEPT ![ptr].state =
                        [activation_policy |-> p, create_default_menu |-> m]]
          /\ written' = [written EXCEPT ![view[u].inst] =
                           [activation_policy |-> p, create_default_menu |-> m]]
          /\ UNCHANGED proc
       \/ /\ heap[ptr].status = "free"
          /\ proc' = "aborted"
          /\ UNCHANGED <<heap, written>>
  /\ phase' = [phase EXCEPT ![view[u].inst] = -1]
  /\ UNCHANGED <<obj, ivar, view, result, constructs, reclaims, deallocCalls>>
  /\ UNCHANGED <<handler, regCalls, launched, exits, cbCalls>>
  /\ UNCHANGED urlVars
  /\ UNCHANGED classVars

\* Mutant of Once_begin: a dereference that finds the initializer running
\* runs it as well
Once_begin_racy(t) ==
  /\ tpc[t] \in {"idle", "done"}
  /\ \/ /\ once \in {"uninit", "running"}
        /\ once' = "running"
        /\ tpc' = [tpc EXCEPT ![t] = "init"]
        /\ UNCHANGED seen
     \/ /\ once = "done"
        /\ seen' = [seen EXCEPT ![t] = classId]
        /\ tpc' = [tpc EXCEPT ![t] = "done"]
        /\ UNCHANGED once
     \/ /\ once = "poisoned"
        /\ tpc' = [tpc EXCEPT ![t] = "panicked"]
        /\ UNCHANGED <<once, seen>>

\* ------------------------------------------------------ APP_DELEGATE_CLASS
\* lazy_static: the first dereference runs the initializer under a Once, the
\* dereferences that arrive meanwhile block, later ones read the stored value.
Once_begin(t) ==
  /\ tpc[t] \in {"idle", "done"}
  /\ \/ /\ once = "uninit"
        /\ once' = "running"
        /\ tpc' = [tpc EXCEPT ![t] = "init"]
        /\ UNCHANGED seen
     \/ /\ once = "running"
        /\ tpc' = [tpc EXCEPT ![t] = "wait"]
        /\ UNCHANGED <<once, seen>>
     \/ /\ once = "done"
        /\ seen' = [seen EXCEPT ![t] = classId]
        /\ tpc' = [tpc EXCEPT ![t] = "done"]
        /\ UNCHANGED once
     \/ /\ once = "poisoned"
        /\ tpc' = [tpc EXCEPT ![t] = "panicked"]
        /\ UNCHANGED <<once, seen>>

deref(t) ==
  /\ Once_begin(t)
  /\ UNCHANGED <<classId, regRuns, nameTaken>>
  /\ UNCHANGED memVars
  /\ UNCHANGED lifeVars
  /\ UNCHANGED urlVars

\* Mutant of APP_DELEGATE_CLASS: when the name is taken the class already
\* registered under it is used instead of panicking
APP_DELEGATE_CLASS_fallback(t) ==
  /\ tpc[t] = "init"
  /\ regRuns' = regRuns + 1
  /\ classId' = regRuns + 1
  /\ nameTaken' = TRUE
  /\ once' = "done"
  /\ seen' = [seen EXCEPT ![t] = regRuns + 1]
  /\ tpc' = [tpc EXCEPT ![t] = "done"]
  /\ UNCHANGED memVars
  /\ UNCHANGED lifeVars
  /\ UNCHANGED urlVars

\* The initializer: ClassDecl::new("TaoAppDelegate", NSResponder).unwrap(),
\* the add_method / add_ivar calls and decl.register().  ClassDecl::new is
\* None when the name is taken; unwrap then panics inside the Once.
APP_DELEGATE_CLASS(t) ==
  /\ tpc[t] = "init"
  /\ regRuns' = regRuns + 1
  /\ IF nameTaken
       THEN /\ once' = "poisoned"
            /\ tpc' = [tpc EXCEPT ![t] = "panicked"]
            /\ UNCHANGED <<classId, nameTaken, seen>>
       ELSE /\ classId' = regRuns + 1
            /\ nameTaken' = TRUE
            /\ once' = "done"
            /\ seen' = [seen EXCEPT ![t] = regRuns + 1]
            /\ tpc' = [tpc EXCEPT ![t] = "done"]
  /\ UNCHANGED memVars
  /\ UNCHANGED lifeVars
  /\ UNCHANGED urlVars

\* A dereference that was blocked on the running initializer resumes.
deref_resume(t) ==
  /\ tpc[t] = "wait"
  /\ \/ /\ once = "done"
        /\ seen' = [seen EXCEPT ![t] = classId]
        /\ tpc' = [tpc EXCEPT ![t] = "done"]
     \/ /\ once = "poisoned"
        /\ tpc' = [tpc EXCEPT ![t] = "panicked"]
        /\ UNCHANGED seen
  /\ UNCHANGED <<once, classId, regRuns, nameTaken>>
  /\ UNCHANGED memVars
  /\ UNCHANGED lifeVars
  /\ UNCHANGED urlVars

\* ------------------------------------------------------ lifecycle callbacks
Callbacks == {"will", "did", "term"}
Codes == {kInternetEventClass, kOtherCode}
EventKeys == Codes \X Codes
NoHandler == [target |-> 0, selector |-> "none"]

RECURSIVE Sum(_, _)
Sum(f, S) == IF S = {} THEN 0
             ELSE LET x == CHOOSE y \in S : TRUE IN f[x] + Sum(f, S \ {x})

\* Number of deliveries of callback c, over all instances
Deliveries(c) == Sum([i \in Inst |-> cbCalls[i][c]], Inst)

\* Mutant of Delivered: the bridge lets each callback through once per instance
Delivered_once(i, c) ==
  /\ Running
  /\ obj[i] # "none"
  /\ Deliveries(c) < MaxCallbacks
  /\ cbCalls[i][c] = 0
  /\ cbCalls' = [cbCalls EXCEPT ![i][c] = @ + 1]

\* The OS delivers callback c to instance i
Delivered(i, c) ==
  /\ Running
  /\ obj[i] # "none"
  /\ Deliveries(c) < MaxCallbacks
  /\ cbCalls' = [cbCalls EXCEPT ![i][c] = @ + 1]

\* Mutant of will_finish_launching: a second call finds the handler in place
\* and registers nothing
will_finish_launching_guarded(i) ==
  /\ Delivered(i, "will")
  /\ IF handler[<<kInternetEventClass, kAEGetURL>>] = NoHandler
       THEN /\ handler' = [handler EXCEPT ![<<kInternetEventClass, kAEGetURL>>] =
                   [target |-> i, selector |-> "handleUrlEvent:withReplyEvent:"]]
            /\ regCalls' = regCalls + 1
       ELSE UNCHANGED <<handler, regCalls>>
  /\ phase' = [phase EXCEPT ![i] = Advance(i, 1)]
  /\ UNCHANGED <<launched, exits>>
  /\ UNCHANGED memVars
  /\ UNCHANGED urlVars
  /\ UNCHANGED classVars

\* extern "C" fn will_finish_launching(this, ..): setEventHandler: this
\* andSelector: handleUrlEvent:withReplyEvent: forEventClass: andEventID:
will_finish_launching(i) ==
  /\ Delivered(i, "will")
  /\ handler' = [handler EXCEPT ![<<kInternetEventClass, kAEGetURL>>] =
                   [target |-> i, selector |-> "handleUrlEvent:withReplyEvent:"]]
  /\ regCalls' = regCalls + 1
  /\ phase' = [phase EXCEPT ![i] = Advance(i, 1)]
  /\ UNCHANGED <<launched, exits>>
  /\ UNCHANGED memVars
  /\ UNCHANGED urlVars
  /\ UNCHANGED classVars

\* Mutant of did_finish_launching: AppState::launched is handed nil
did_finish_launching_nil(i) ==
  /\ Delivered(i, "did")
  /\ launched' = Append(launched, NULL)
  /\ phase' = [phase EXCEPT ![i] = Advance(i, 2)]
  /\ UNCHANGED <<handler, regCalls, exits>>
  /\ UNCHANGED memVars
  /\ UNCHANGED urlVars
  /\ UNCHANGED classVars

\* extern "C" fn did_finish_launching(this, ..): AppState::launched(this)
did_finish_launching(i) ==
  /\ Delivered(i, "did")
  /\ launched' = Append(launched, i)
  /\ phase' = [phase EXCEPT ![i] = Advance(i, 2)]
  /\ UNCHANGED <<handler, regCalls, exits>>
  /\ UNCHANGED memVars
  /\ UNCHANGED urlVars
  /\ UNCHANGED classVars

\* Mutant of application_will_terminate: the AuxDelegateState is released at
\* termination as well
application_will_terminate_reclaim(i) ==
  /\ Delivered(i, "term")
  /\ exits' = exits + 1
  /\ heap' = [heap EXCEPT ![ivar[i]].status = "free"]
  /\ reclaims' = reclaims + 1
  /\ phase' = [phase EXCEPT ![i] = Advance(i, 3)]
  /\ UNCHANGED <<handler, regCalls, launched>>
  /\ UNCHANGED <<obj, ivar, view, result, proc, constructs, deallocCalls, written>>
  /\ UNCHANGED urlVars
  /\ UNCHANGED classVars

\* Mutant of application_will_terminate: AppState::exit is not called
application_will_terminate_silent(i) ==
  /\ Delivered(i, "term")
  /\ phase' = [phase EXCEPT ![i] = Advance(i, 3)]
  /\ UNCHANGED <<handler, regCalls, launched, exits>>
  /\ UNCHANGED memVars
  /\ UNCHANGED urlVars
  /\ UNCHANGED classVars

\* extern "C" fn application_will_terminate(_, ..): AppState::exit()
application_will_terminate(i) ==
  /\ Delivered(i, "term")
  /\ exits' = exits + 1
  /\ phase' = [phase EXCEPT ![i] = Advance(i, 3)]
  /\ UNCHANGED <<handler, regCalls, launched>>
  /\ UNCHANGED memVars
  /\ UNCHANGED urlVars
  /\ UNCHANGED classVars

\* ------------------------------------------------------ URL event decoder
\* An NSString is a sequence of code points; NilString is the nil id.
Chars == {0, 104, 233}
NilString == <<-1>>
NSStrings == UNION {[1..n -> Chars] : n \in 0..MaxStrLen}
Keywords == {keyDirectObject, kOtherCode}

\* The string every event carries under the keyword that is not keyDirectObject
OtherParam == <<104, 104, 104>>

\* NSAppleEventDescriptor handed to the handler (handle = NULL: nil id)
NullEvent ==
  [handle |-> NULL, eventClass |-> 0, eventID |-> 0,
   params |-> [k \in Keywords |-> NilString]]
Events ==
  {NullEvent} \cup
  {[handle |-> 1, eventClass |-> c, eventID |-> d,
    params |-> [k \in Keywords |-> IF k = keyDirectObject THEN s ELSE OtherParam]] :
     c \in Codes, d \in Codes, s \in NSStrings \cup {NilString}}

\* UTF-8 encoding of one code point / of an NSString
Utf8(c) ==
  IF c < 128 THEN <<c>>
  ELSE IF c < 2048 THEN <<192 + (c \div 64), 128 + (c % 64)>>
  ELSE <<224 + (c \div 4096), 128 + ((c \div 64) % 64), 128 + (c % 64)>>

RECURSIVE Utf8Seq(_)
Utf8Seq(ns) == IF ns = <<>> THEN <<>> ELSE Utf8(Head(ns)) \o Utf8Seq(Tail(ns))

\* [nsstring UTF8String]: NULL for nil, else the NUL-terminated encoding
NullPtr == <<-1>>
UTF8String(ns) == IF ns = NilString THEN NullPtr ELSE Utf8Seq(ns) \o <<0>>

\* CStr::from_ptr: the bytes before the first NUL byte
RECURSIVE CStr_from_ptr(_)
CStr_from_ptr(bytes) ==
  IF bytes = <<>> \/ Head(bytes) = 0 THEN <<>>
  ELSE <<Head(bytes)>> \o CStr_from_ptr(Tail(bytes))

\* CStr::to_string_lossy: UTF-8 decoding, U+FFFD for each invalid byte
IsCont(bytes, k) == Len(bytes) >= k /\ bytes[k] >= 128 /\ bytes[k] < 192
RECURSIVE to_string_lossy(_)
to_string_lossy(bytes) ==
  IF bytes = <<>> THEN <<>>
  ELSE LET b == Head(bytes) IN
    IF b < 128 THEN <<b>> \o to_string_lossy(Tail(bytes))
    ELSE IF b >= 194 /\ b < 224 /\ IsCont(bytes, 2)
      THEN <<(b - 192) * 64 + (bytes[2] - 128)>>
             \o to_string_lossy(SubSeq(bytes, 3, Len(bytes)))
    ELSE IF b >= 224 /\ b < 240 /\ IsCont(bytes, 2) /\ IsCont(bytes, 3)
      THEN <<(b - 224) * 4096 + (bytes[2] - 128) * 64 + (bytes[3] - 128)>>
             \o to_string_lossy(SubSeq(bytes, 4, Len(bytes)))
    ELSE <<65533>> \o to_string_lossy(Tail(bytes))

\* fn nsstring_to_string(nsstring) -> String
nsstring_to_string(nsstring) ==
  LET cstr == UTF8String(nsstring) IN
    IF cstr # NullPtr THEN to_string_lossy(CStr_from_ptr(cstr)) ELSE <<>>

\* [event paramDescriptorForKeyword: k] followed by stringValue
stringValue(event, k) == event.params[k]

\* Mutant of parse_url_event: the class/id test rejects only events in which
\* both differ
parse_url_event_and(event) ==
  IF event.handle = NULL THEN [url |-> <<>>, reads |-> 0]
  ELSE IF event.eventClass # kInternetEventClass /\ event.eventID # kAEGetURL
    THEN [url |-> <<>>, reads |-> 0]
  ELSE [url |-> nsstring_to_string(stringValue(event, keyDirectObject)),
        reads |-> 1]

\* fn parse_url_event(event) -> String; reads counts the
\* paramDescriptorForKeyword messages it sends
parse_url_event(event) ==
  IF event.handle = NULL THEN [url |-> <<>>, reads |-> 0]
  ELSE IF event.eventClass # kInternetEventClass \/ event.eventID # kAEGetURL
    THEN [url |-> <<>>, reads |-> 0]
  ELSE [url |-> nsstring_to_string(stringValue(event, keyDirectObject)),
        reads |-> 1]

\* Mutant of queue_event: an empty URL is not queued
queue_event_nonempty(q, url) == IF url = <<>> THEN q ELSE Append(q, url)

\* AppState::queue_event(EventWrapper::StaticEvent(Event::UrlEvent(url)))
queue_event(q, url) == Append(q, url)

\* Mutant of handle_url_event_with_reply_event: the handler takes the
\* AuxDelegateState borrow of its receiver for the duration of the call
handle_url_event_with_reply_event_borrowing(i, event) ==
  /\ Running
  /\ obj[i] # "none"
  /\ Len(delivered) < MaxEvents
  /\ LET r == parse_url_event(event) IN
       /\ queue' = queue_event(queue, r.url)
       /\ paramReads' = paramReads + r.reads
  /\ delivered' = Append(delivered, event)
  /\ phase' = [phase EXCEPT ![i] = -1]
  /\ proc' = IF heap[ivar[i]].borrow # 0 THEN "panicked" ELSE proc
  /\ UNCHANGED <<handler, regCalls, launched, exits, cbCalls>>
  /\ UNCHANGED <<obj, ivar, heap, view, result, constructs, reclaims,
                 deallocCalls, written>>
  /\ UNCHANGED classVars

\* extern "C" fn handle_url_event_with_reply_event(_, _, event, _)
handle_url_event_with_reply_event(i, event) ==
  /\ Running
  /\ obj[i] # "none"
  /\ Len(delivered) < MaxEvents
  /\ LET r == parse_url_event(event) IN
       /\ queue' = queue_event(queue, r.url)
       /\ paramReads' = paramReads + r.reads
  /\ delivered' = Append(delivered, event)
  /\ phase' = [phase EXCEPT ![i] = -1]
  /\ UNCHANGED <<handler, regCalls, launched, exits, cbCalls>>
  /\ UNCHANGED memVars
  /\ UNCHANGED classVars

\* ------------------------------------------------------------ specifications
InitClass ==
  /\ once = "uninit"
  /\ classId = NULL
  /\ regRuns = 0
  /\ tpc = [t \in Threads |-> "idle"]
  /\ seen = [t \in Threads |-> NULL]

InitRest ==
  /\ obj = [i \in Inst |-> "none"]
  /\ ivar = [i \in Inst |-> NULL]
  /\ heap = [a \in 0..NAddr |-> FreshMem]
  /\ view = [u \in Users |-> NoView]
  /\ result = [user |-> 0, inst |-> 0, outcome |-> "none", tick |-> 0]
  /\ proc = "running"
  /\ constructs = 0
  /\ reclaims = 0
  /\ deallocCalls = [i \in Inst |-> 0]
  /\ written = [i \in Inst |-> AuxDelegateState]
  /\ handler = [k \in EventKeys |-> NoHandler]
  /\ regCalls = 0
  /\ launched = <<>>
  /\ exits = 0
  /\ queue = <<>>
  /\ delivered = <<>>
  /\ paramReads = 0
  /\ cbCalls = [i \in Inst |-> [c \in Callbacks |-> 0]]
  /\ phase = [i \in Inst |-> 0]

\* The process before the first access to APP_DELEGATE_CLASS
InitCls ==
  /\ InitClass
  /\ nameTaken \in BOOLEAN
  /\ InitRest

\* The process once thread 1 has registered the class
Init ==
  /\ once = "done"
  /\ classId = 1
  /\ regRuns = 1
  /\ nameTaken = TRUE
  /\ tpc = [t \in Threads |-> IF t = 1 THEN "done" ELSE "idle"]
  /\ seen = [t \in Threads |-> IF t = 1 THEN 1 ELSE NULL]
  /\ InitRest

NextCls ==
  \/ \E i \in Inst, a \in Addr : new(i, a)
  \/ \E t \in Threads : deref(t)
  \/ \E t \in Threads : APP_DELEGATE_CLASS(t)
  \/ \E t \in Threads : deref_resume(t)

NextUrl ==
  \/ \E i \in Inst, a \in Addr : new(i, a)
  \/ \E i \in Inst, e \in Events : handle_url_event_with_reply_event(i, e)

NextMem ==
  \/ \E i \in Inst, a \in Addr : new(i, a)
  \/ \E i \in Inst : dealloc(i)
  \/ \E u \in Users, i \in Inst : get_aux_state_mut(u, i)
  \/ \E u \in Users : drop_ref_mut(u)
  \/ \E u \in Users, p \in Policies, m \in BOOLEAN : write_aux(u, p, m)

NextLife ==
  \/ \E i \in Inst, a \in Addr : new(i, a)
  \/ \E i \in Inst : dealloc(i)
  \/ \E i \in Inst : will_finish_launching(i)
  \/ \E i \in Inst : did_finish_launching(i)
  \/ \E i \in Inst : application_will_terminate(i)

\* The environment the code relies on: the runtime sends dealloc once, to a
\* live instance none of whose RefMut is still alive (the RefMut borrows
\* `this`), and the accessor is called on live instances only (its Safety
\* comment).
NoViewOn(i) == \A u \in Users : view[u].inst # i

os_dealloc(i) ==
  /\ obj[i] = "live"
  /\ NoViewOn(i)
  /\ dealloc(i)

os_get_aux_state_mut(u, i) ==
  /\ obj[i] = "live"
  /\ get_aux_state_mut(u, i)

\* The events delivered together with the other callbacks: nil, and one
\* with the expected class and id
SampleEvents ==
  {e \in Events :
     \/ e = NullEvent
     \/ /\ e.eventClass = kInternetEventClass
        /\ e.eventID = kAEGetURL
        /\ e.params[keyDirectObject] = <<104>>}

NextOS ==
  \/ \E i \in Inst, a \in Addr : new(i, a)
  \/ \E i \in Inst : os_dealloc(i)
  \/ \E u \in Users, i \in Inst : os_get_aux_state_mut(u, i)
  \/ \E u \in Users : drop_ref_mut(u)
  \/ \E u \in Users, p \in Policies, m \in BOOLEAN : write_aux(u, p, m)
  \/ \E i \in Inst : did_finish_launching(i)

NextReent ==
  \/ \E i \in Inst, a \in Addr : new(i, a)
  \/ \E i \in Inst : os_dealloc(i)
  \/ \E u \in Users, i \in Inst : os_get_aux_state_mut(u, i)
  \/ \E u \in Users : drop_ref_mut(u)
  \/ \E i \in Inst : will_finish_launching(i)
  \/ \E i \in Inst : did_finish_launching(i)
  \/ \E i \in Inst : application_will_terminate(i)
  \/ \E i \in Inst, e \in SampleEvents : handle_url_event_with_reply_event(i, e)

SpecOS == Init /\ [][NextOS]_vars
SpecReent == Init /\ [][NextReent]_vars
SpecMem == Init /\ [][NextMem]_vars
SpecLife == Init /\ [][NextLife]_vars
SpecCls == InitCls /\ [][NextCls]_vars
SpecUrl == Init /\ [][NextUrl]_vars

\* ------------------------------------------------------------------ claims
Dead == {i \in Inst : obj[i] = "dead"}
Live == {i \in Inst : obj[i] = "live"}
Allocated == {a \in Addr : heap[a].status = "alloc"}

\* C1: when no instance has been destroyed more than once, every destroyed
\* instance accounts for exactly one reclaim and every AuxDelegateState still
\* allocated belongs to a construction not yet reclaimed; once every
\* constructed instance is destroyed, reclaims = constructions and nothing is
\* left allocated.
C1_ReclaimsEqualConstructions ==
  (\A i \in Inst : deallocCalls[i] <= 1) =>
     /\ reclaims = Cardinality(Dead)
     /\ constructs = Cardinality(Dead) + Cardinality(Live)
     /\ Cardinality(Allocated) = constructs - reclaims
     /\ (Live = {} => (reclaims = constructs /\ Allocated = {}))

C1_Witness ==
  /\ constructs = NInst
  /\ reclaims = NInst
  /\ \A i \in Inst : obj[i] = "dead" /\ deallocCalls[i] = 1
  /\ \E i, j \in Inst : i # j /\ ivar[i] = ivar[j]

\* C2: once dealloc has run on an instance its auxState slot is NULL, and no
\* AuxDelegateState is reclaimed more often than it was constructed.
C2_SlotInvalidatedAfterReclaim ==
  /\ \A i \in Inst : deallocCalls[i] >= 1 => ivar[i] = NULL
  /\ reclaims <= constructs

\* A step that is a call get_aux_state_mut(this = i) by user u
CallStep(u, i) ==
  /\ result'.tick # result.tick
  /\ result'.user = u
  /\ result'.inst = i

\* C3: a call of get_aux_state_mut on an instance whose RefCell is allocated
\* and records an outstanding borrow fails with the borrow conflict, gives
\* the caller no view and leaves every view and the whole heap (borrow flags
\* and AuxDelegateState values) as they were.
C3_ReentrantBorrowFails ==
  [][\A u \in Users, i \in Inst :
       (/\ CallStep(u, i)
        /\ heap[ivar[i]].status = "alloc"
        /\ heap[ivar[i]].borrow # 0)
       => (/\ result'.outcome = "panic"
           /\ view' = view
           /\ heap' = heap)]_vars

C3_Witness ==
  /\ result.outcome = "panic"
  /\ obj[result.inst] = "live"
  /\ heap[ivar[result.inst]].status = "alloc"
  /\ \E w \in Users : /\ w # result.user
                      /\ view[w] = [inst |-> result.inst, addr |-> ivar[result.inst]]

\* C4: a borrow conflict comes back to the caller as an error value and the
\* process keeps running: no call of the accessor ends in a panic.
C4_ConflictIsTypedError ==
  /\ result.outcome # "panic"
  /\ proc # "panicked"

\* C10: a step that constructs an instance leaves its slot pointing at an
\* allocated RefCell with no borrow and activation_policy = Regular,
\* create_default_menu = TRUE; and a step in which an address becomes
\* allocated is a construction that stores that address in the new
\* instance's slot.
C10_NewAttachesDefaultState ==
  [][/\ \A i \in Inst :
          (obj[i] = "none" /\ obj'[i] = "live") =>
             /\ ivar'[i] \in Addr
             /\ heap'[ivar'[i]].status = "alloc"
             /\ heap'[ivar'[i]].borrow = 0
             /\ heap'[ivar'[i]].state.activation_policy = "Regular"
             /\ heap'[ivar'[i]].state.create_default_menu = TRUE
     /\ \A a \in Addr :
          (heap[a].status = "free" /\ heap'[a].status = "alloc") =>
             /\ constructs' = constructs + 1
             /\ \E i \in Inst : obj[i] = "none" /\ obj'[i] = "live" /\ ivar'[i] = a
     /\ constructs' # constructs =>
          \E i \in Inst : obj[i] = "none" /\ obj'[i] = "live"]_vars

C10_Witness ==
  \E i \in Inst :
     /\ obj[i] = "live"
     /\ heap[ivar[i]].status = "alloc"
     /\ heap[ivar[i]].state =
          [activation_policy |-> "Regular", create_default_menu |-> TRUE]
     /\ \E j \in Inst : j # i /\ obj[j] = "dead" /\ ivar[j] = ivar[i]

\* C5: when one instance has gone through new, will-finish-launching,
\* did-finish-launching, will-terminate and dealloc in that order, with
\* nothing else delivered to it and no other instance constructed, then
\* AppState::launched has been called once (with that instance),
\* AppState::exit once, its AuxDelegateState has been reclaimed once, and
\* there has been no borrow conflict.
C5_CanonicalLifecycle ==
  \A i \in Inst :
     (phase[i] = 5 /\ \A j \in Inst \ {i} : phase[j] = 0) =>
        /\ launched = <<i>>
        /\ exits = 1
        /\ constructs = 1
        /\ reclaims = 1
        /\ heap[ivar[i]].status = "free"
        /\ result.outcome = "none"
        /\ proc = "running"

C5_Witness ==
  \E i \in Inst :
     /\ phase[i] = 5
     /\ \A j \in Inst \ {i} : phase[j] = 0
     /\ cbCalls[i] = [c \in Callbacks |-> 1]
     /\ obj[i] = "dead"

\* An event the handler is not registered for: nil, or class or id different
Foreign(e) ==
  \/ e.handle = NULL
  \/ e.eventClass # 1196773964
  \/ e.eventID # 1196773964

\* C6: for every nil or foreign event handed to the URL handler the decoded
\* string is empty, and the direct-object parameter has been read at most
\* once per event that is not nil or foreign.
C6_ForeignEventsDecodeEmpty ==
  /\ Len(queue) >= Len(delivered)
  /\ \A k \in 1..Len(delivered) : Foreign(delivered[k]) => queue[k] = <<>>
  /\ paramReads <= Cardinality({k \in 1..Len(delivered) : ~Foreign(delivered[k])})
  /\ proc = "running"

C6_Witness ==
  /\ Len(delivered) = 2
  /\ delivered[1].handle = NULL
  /\ delivered[2].handle # NULL
  /\ delivered[2].eventClass = 1196773964
  /\ delivered[2].eventID # 1196773964
  /\ delivered[2].params[757935405] = <<104, 233>>
  /\ queue = <<<<>>, <<>>>>
  /\ paramReads = 0

\* C7: for every event with the expected class and id handed to the URL
\* handler, the decoded string is the direct-object string itself, and it is
\* empty when that string is nil.
C7_WellFormedDecodesExactly ==
  /\ Len(queue) >= Len(delivered)
  /\ \A k \in 1..Len(delivered) :
        ~Foreign(delivered[k]) =>
           queue[k] = IF delivered[k].params[757935405] = NilString
                        THEN <<>>
                        ELSE delivered[k].params[757935405]

\* C8: the event queue holds one UrlEvent per invocation of the URL handler,
\* in invocation order: the k-th entry is empty for a nil or foreign k-th
\* event and is the direct-object string for a k-th event of the expected
\* class and id whose string has no NUL character.
C8_OneUrlEventPerInvocation ==
  /\ Len(queue) = Len(delivered)
  /\ \A k \in 1..Len(delivered) :
        LET e == delivered[k]
            s == e.params[757935405] IN
          /\ Foreign(e) => queue[k] = <<>>
          /\ (~Foreign(e) /\ s = NilString) => queue[k] = <<>>
          /\ (~Foreign(e) /\ s # NilString /\ \A n \in 1..Len(s) : s[n] # 0)
               => queue[k] = s

C8_Witness ==
  /\ Len(delivered) = 2
  /\ delivered[1] = NullEvent
  /\ ~Foreign(delivered[2])
  /\ queue = <<<<>>, <<233, 104>>>>

\* C9: the initializer of APP_DELEGATE_CLASS is entered at most once, has run
\* exactly once when some access has yielded a class, every access yields the
\* one stored class, and the stored class never changes once set.
C9_ClassBuiltOnce ==
  /\ [](/\ regRuns <= 1
        /\ \A t \in Threads : seen[t] # NULL => (seen[t] = classId /\ regRuns = 1)
        /\ classId # NULL => regRuns = 1)
  /\ [][classId # NULL => classId' = classId]_vars

C9_Witness ==
  /\ classId # NULL
  /\ regRuns = 1
  /\ \A t \in Threads : tpc[t] = "done" /\ seen[t] = classId

\* C11: when the initializer of APP_DELEGATE_CLASS runs while the class name
\* is taken, it panics: the Once is poisoned for good, no class pointer is
\* stored or handed to any thread, every later access panics as well, and no
\* delegate instance is ever constructed.
C11_RegistrationFailureFatal ==
  /\ [](once = "poisoned" =>
          /\ classId = NULL
          /\ \A t \in Threads : seen[t] = NULL /\ tpc[t] # "done"
          /\ \A i \in Inst : obj[i] = "none"
          /\ constructs = 0)
  /\ [][(regRuns' = regRuns + 1 /\ nameTaken) =>
          (/\ once' = "poisoned"
           /\ classId' = NULL
           /\ \E t \in Threads : tpc[t] = "init" /\ tpc'[t] = "panicked")]_vars
  /\ [][once = "poisoned" => once' = "poisoned"]_vars

C11_Witness ==
  /\ once = "poisoned"
  /\ regRuns = 1
  /\ Cardinality({t \in Threads : tpc[t] = "panicked"}) >= 2

\* A step that delivers callback c to instance i
DeliveryStep(i, c) == cbCalls'[i][c] = cbCalls[i][c] + 1

\* C12: a delivery of did-finish-launching to instance i hands exactly i to
\* AppState::launched and touches neither the heap nor any RefMut; at that
\* moment the cell a live i points to is allocated and holds the values last
\* stored through i's accessor (the values new gave it if none were), and its
\* borrow flag is clear unless a caller of the accessor still holds a RefMut.
C12_LaunchHandsOverInstance ==
  [][\A i \in Inst :
       DeliveryStep(i, "did") =>
          /\ launched' = Append(launched, i)
          /\ heap' = heap
          /\ view' = view
          /\ ivar' = ivar
          /\ obj[i] = "live" =>
               /\ heap[ivar[i]].status = "alloc"
               /\ heap[ivar[i]].state = written[i]
               /\ NoViewOn(i) => heap[ivar[i]].borrow = 0]_vars

C12_Witness ==
  \E i \in Inst :
     /\ launched = <<i>>
     /\ obj[i] = "live"
     /\ NoViewOn(i)
     /\ written[i] = [activation_policy |-> "Accessory", create_default_menu |-> FALSE]
     /\ heap[ivar[i]].state = written[i]
     /\ heap[ivar[i]].borrow = 0
     /\ \E j \in Inst : j # i /\ obj[j] = "dead" /\ ivar[j] = ivar[i]

\* A step that hands one more event to the URL handler
UrlStep == Len(delivered') = Len(delivered) + 1

\* C13: a delivery of will-finish-launching, did-finish-launching or
\* will-terminate, or an invocation of the URL handler, leaves every slot,
\* every cell (status, borrow flag, values), every RefMut and the counts of
\* constructions and reclaims as they were; a cell becomes allocated, or gets
\* its values from the bridge, only in a construction, and becomes free only
\* in a dealloc of an instance whose slot points to it.
C13_CallbacksLeaveStateAlone ==
  [][/\ ((\E i \in Inst, c \in Callbacks : DeliveryStep(i, c)) \/ UrlStep) =>
          /\ heap' = heap
          /\ ivar' = ivar
          /\ view' = view
          /\ obj' = obj
          /\ written' = written
          /\ constructs' = constructs
          /\ reclaims' = reclaims
          /\ result' = result
          /\ proc' = proc
     /\ \A a \in Addr :
          /\ (heap[a].status = "free" /\ heap'[a].status = "alloc") =>
                \E i \in Inst : obj[i] = "none" /\ obj'[i] = "live" /\ ivar'[i] = a
          /\ (heap[a].status = "alloc" /\ heap'[a].status = "free") =>
                /\ reclaims' = reclaims + 1
                /\ \E i \in Inst : /\ deallocCalls'[i] = deallocCalls[i] + 1
                                   /\ ivar[i] = a
          /\ heap'[a].state # heap[a].state =>
                \E i \in Inst : obj[i] = "none" /\ obj'[i] = "live" /\ ivar'[i] = a]_vars

C13_Witness ==
  \E i \in Inst :
     /\ obj[i] = "live"
     /\ \A c \in Callbacks : cbCalls[i][c] >= 1
     /\ Len(delivered) >= 1
     /\ heap[ivar[i]] = [status |-> "alloc", borrow |-> -1,
                         state |-> [activation_policy |-> "Regular",
                                    create_default_menu |-> TRUE]]
     /\ \E u \in Users : view[u] = [inst |-> i, addr |-> ivar[i]]
     /\ constructs = 1
     /\ reclaims = 0

\* C14: every live instance's slot points to an allocated cell, and no two
\* live instances' slots point to the same cell.
C14_LiveStateHasOneOwner ==
  \A i \in Inst :
     obj[i] = "live" =>
        /\ ivar[i] \in Addr
        /\ heap[ivar[i]].status = "alloc"
        /\ \A j \in Inst : (j # i /\ obj[j] = "live") => ivar[j] # ivar[i]

\* C15: the bridge enforces neither ordering nor exactly-once delivery: on
\* every constructed instance did-finish-launching and will-terminate can be
\* delivered in every state (up to the delivery bound), AppState::launched has
\* been called once per did-finish-launching delivery and AppState::exit once
\* per will-terminate delivery, whatever the order of the deliveries.
C15_NoOrderingEnforced ==
  /\ Len(launched) = Deliveries("did")
  /\ exits = Deliveries("term")
  /\ \A i \in Inst :
        (Running /\ obj[i] # "none") =>
           /\ Deliveries("did") < MaxCallbacks => ENABLED did_finish_launching(i)
           /\ Deliveries("term") < MaxCallbacks =>
                 ENABLED application_will_terminate(i)

\* will-terminate delivered twice and then did-finish-launching twice on one
\* instance that never saw will-finish-launching
C15_Witness ==
  \E i \in Inst :
     /\ cbCalls[i] = [c \in Callbacks |-> IF c = "will" THEN 0 ELSE 2]
     /\ launched = <<i, i>>
     /\ exits = 2
     /\ regCalls = 0
     /\ phase[i] = -1

GetUrlKey == <<kInternetEventClass, kAEGetURL>>

\* C16: every will-finish-launching delivery registers the receiver with the
\* handleUrlEvent:withReplyEvent: selector for the (kInternetEventClass,
\* kAEGetURL) pair and for no other pair, unguarded, so there is one
\* registration per delivery; when did-finish-launching follows
\* will-finish-launching on an instance, the registration is in place when
\* AppState::launched is called.
C16_HandlerRegisteredAtWillLaunch ==
  /\ [](/\ regCalls = Deliveries("will")
        /\ \A k \in EventKeys : k # GetUrlKey => handler[k] = NoHandler
        /\ \A i \in Inst :
              (Running /\ obj[i] # "none" /\ Deliveries("will") < MaxCallbacks)
                 => ENABLED will_finish_launching(i))
  /\ [][\A i \in Inst :
          /\ DeliveryStep(i, "will") =>
                /\ handler'[GetUrlKey] =
                      [target |-> i, selector |-> "handleUrlEvent:withReplyEvent:"]
                /\ regCalls' = regCalls + 1
          /\ (DeliveryStep(i, "did") /\ phase[i] = 2) =>
                /\ handler[GetUrlKey].selector = "handleUrlEvent:withReplyEvent:"
                /\ handler[GetUrlKey].target \in Inst
                /\ cbCalls[handler[GetUrlKey].target]["will"] >= 1
                /\ regCalls >= 1
                /\ launched = <<>> => launched' = <<i>>]_vars

\* will-finish-launching delivered twice on one instance, two registrations,
\* then did-finish-launching
C16_Witness ==
  \E i \in Inst :
     /\ cbCalls[i]["will"] = 2
     /\ regCalls = 2
     /\ handler[GetUrlKey] =
           [target |-> i, selector |-> "handleUrlEvent:withReplyEvent:"]
     /\ launched = <<i>>

\* A step of one of the four callbacks of the bridge
CallbackStep ==
  \/ \E i \in Inst, c \in Callbacks : DeliveryStep(i, c)
  \/ UrlStep

\* C17: no callback takes the AuxDelegateState borrow: a callback step, however
\* the callbacks are interleaved or repeated on an instance, changes no borrow
\* flag and no RefMut and ends in no panic; the process panics only in a call
\* of get_aux_state_mut made while another user holds the RefMut of the same
\* instance; the borrow flag of a live instance is set exactly while some
\* user holds its RefMut, so a call made after the release returns a RefMut.
C17_CallbacksNeverConflict ==
  /\ [](/\ proc # "aborted"
        /\ \A i \in Inst :
              obj[i] = "live" =>
                 /\ heap[ivar[i]].status = "alloc"
                 /\ heap[ivar[i]].borrow = (IF NoViewOn(i) THEN 0 ELSE -1))
  /\ [][/\ CallbackStep =>
              /\ proc' = proc
              /\ result' = result
              /\ view' = view
              /\ \A a \in Addr : heap'[a].borrow = heap[a].borrow
        /\ proc' # proc =>
              /\ proc' = "panicked"
              /\ \E u \in Users, i \in Inst :
                    /\ CallStep(u, i)
                    /\ \E w \in Users \ {u} :
                          view[w] = [inst |-> i, addr |-> ivar[i]]
        /\ \A u \in Users, i \in Inst :
              (CallStep(u, i) /\ NoViewOn(i)) =>
                 /\ result'.outcome = "RefMut"
                 /\ view'[u] = [inst |-> i, addr |-> ivar[i]]
                 /\ proc' = "running"]_vars

\* Every callback was delivered to an instance while a user held its RefMut
\* (the callbacks repeated), the RefMut was released, and the next call of
\* get_aux_state_mut by the other user returned a RefMut
C17_Witness ==
  \E i \in Inst, u \in Users :
     /\ obj[i] = "live"
     /\ cbCalls[i]["will"] >= 1 /\ cbCalls[i]["did"] >= 2 /\ cbCalls[i]["term"] >= 1
     /\ Len(delivered) >= 1
     /\ result = [user |-> u, inst |-> i, outcome |-> "RefMut", tick |-> 0]
     /\ view[u] = [inst |-> i, addr |-> ivar[i]]
     /\ \A w \in Users \ {u} : view[w] = NoView
     /\ proc = "running"

====
